---- MODULE Spec2Model ----
(***************************************************************************)
(* A model of retrieve.py: main() runs User(...) for every requested user  *)
(* id; User fetches the profile, pages through the user's items, builds an *)
(* Item for every item id (metadata, date window, stockers pages), sums    *)
(* the metrics and rounds the contribution; main sorts and writes the CSV. *)
(* Every requests.get(...).json() call is one step of the model: the call  *)
(* blocks, and what the Qiita API answers is chosen nondeterministically.  *)
(* Instants are whole seconds counted from 00:00:00 of day 0.              *)
(***************************************************************************)
EXTENDS Integers, Sequences, FiniteSets

\* ------------------------------------------------------------- constants
PER_PAGE == 10
SecondsPerDay == 86400

\* ---------------------------------------------------------------- bounds
MaxUsers == 2        \* user ids on the command line
MaxItemPages == 2    \* the API returns a short items page at this page at the latest
MaxStockPages == 2   \* the API returns a short stockers page at this page at the latest

UserIds == {"a", "b"}
Days == {1}          \* the days --start and --end name
LikeCounts == {0, 1} \* the likes_count and comments_count the API reports
FreeUsers == {1}     \* the positions in user_ids the API answers with full pages, and
FreeIds == {1}       \* their item ids it answers with any metadata and stockers

VARIABLES
    args,            \* args.start, args.end: <<>> (None) or <<day>> (YYYYMMDD)
    user_ids,        \* main: user_ids
    start, end,      \* main: start, end: <<>> (None) or <<instant>>
    contributions,   \* main: contributions
    uidx,            \* main: position of the for loop in user_ids
    pc,              \* where the program is
    user,            \* the User object under construction (self in User)
    page,            \* User._get_items: page
    items,           \* User._get_items: items (the ids of the current page)
    k,               \* User._get_items: position of the for loop in items
    item,            \* the Item object under construction (self in Item)
    spage,           \* Item._get_stockers_count: page
    stockers_count,  \* Item._get_stockers_count: stockers_count
    printed,         \* main: the positions in user_ids whose exception was printed
    file,            \* the output file: opened or not, and its lines
    log              \* the requests of the current User(...) and what came back, in order

vars == <<args, user_ids, start, end, contributions, uidx, pc, user, page, items,
          k, item, spage, stockers_count, printed, file, log>>

\* --------------------------------------------------------- the Qiita API
\* What requests.get(...).json() can do: raise (a network error, a body that is
\* no JSON), return the JSON error object of a non-2xx answer, or return data.
ErrorObject == [message |-> "Rate limit exceeded", type |-> "rate_limit_exceeded"]

Instants == {SecondsPerDay - 1, SecondsPerDay, 2 * SecondsPerDay - 1, 2 * SecondsPerDay}

\* "2024-01-01T12:00:00+09:00": the first 19 characters and the UTC offset
ApiTime(t) == [head |-> t, offset |-> "+09:00"]

PlainMeta ==
    [created_at |-> ApiTime(SecondsPerDay), updated_at |-> ApiTime(SecondsPerDay),
     likes_count |-> 1, comments_count |-> 0]

FreeMetas ==
    {[created_at |-> ApiTime(c), updated_at |-> ApiTime(u),
      likes_count |-> l, comments_count |-> l] :
        c \in Instants, u \in Instants, l \in LikeCounts}

ProfileResponses ==
    {[kind |-> "raise"], [kind |-> "error_object", json |-> ErrorObject]}
    \cup {[kind |-> "ok", json |-> [followees_count |-> 3, followers_count |-> 5]]}

\* the ids of page p when it holds n items: a page lists the newest item first
PageIds(p, n) == [i \in 1..n |-> (p - 1) * PER_PAGE + n + 1 - i]

PageLens(p, max) == IF p >= max THEN {0, 1} ELSE {0, 1, PER_PAGE}

ItemsResponses(p) ==
    {[kind |-> "raise"], [kind |-> "error_object", json |-> ErrorObject]}
    \cup {[kind |-> "ok", json |-> PageIds(p, n)] :
            n \in IF uidx \in FreeUsers THEN PageLens(p, MaxItemPages) ELSE {0, 1}}

Free(id) == uidx \in FreeUsers /\ id \in FreeIds

ItemResponses(id) ==
    {[kind |-> "raise"], [kind |-> "error_object", json |-> ErrorObject]}
    \cup {[kind |-> "ok", json |-> m] :
            m \in IF Free(id)
                  THEN {f \in FreeMetas : f.created_at.head <= f.updated_at.head}
                  ELSE {PlainMeta}}

StockersResponses(id, p) ==
    {[kind |-> "raise"]}
    \cup (IF Free(id)
          THEN {[kind |-> "error_object", json |-> ErrorObject]}
               \cup {[kind |-> "ok", json |-> [i \in 1..n |-> i]] :
                       n \in PageLens(p, MaxStockPages)}
          ELSE {[kind |-> "ok", json |-> <<>>]})

\* ------------------------------------------------------------ Python bits
\* len() of what .json() returned: the items of a list, the keys of a dict
PyLen(r) == Cardinality(DOMAIN r.json)

\* datetime.strptime(s[:19], '%Y-%m-%dT%H:%M:%S'): the offset is cut off
ParseTime(s) == s.head

\* datetime.strptime(args.start, '%Y%m%d')
ParseDay(d) == d * SecondsPerDay

ParseStart(a) == IF a = <<>> THEN <<>> ELSE <<ParseDay(a[1])>>

\* a bug: the end day is taken at 00:00:00
ParseEndMidnight(a) == IF a = <<>> THEN <<>> ELSE <<ParseDay(a[1])>>

ParseEnd(a) == IF a = <<>> THEN <<>> ELSE <<ParseDay(a[1]) + SecondsPerDay - 1>>

\* one requests.get(...).json(): the endpoint, its page and item id, and what came
\* back (n is the len() the pagination loops take of a JSON body)
Exchange(kind, p, id, r) ==
    [u |-> uidx, kind |-> kind, page |-> p, id |-> id, got |-> r.kind,
     n |-> IF r.kind # "raise" /\ kind \in {"items", "stockers"} THEN PyLen(r) ELSE 0]

\* ------------------------------------------------------------------ Item
NewItem(id) ==
    [item_id |-> id, created_at |-> 0, updated_at |-> 0, is_valid |-> FALSE,
     likes_count |-> 0, stockers_count |-> 0, comments_count |-> 0]

NoItem == NewItem(0)

\* a bug: the bounds are exclusive
OutOfWindowExclusive(created_at, updated_at) ==
    \/ start # <<>> /\ updated_at <= start[1]
    \/ end # <<>> /\ created_at >= end[1]

OutOfWindow(created_at, updated_at) ==
    \/ start # <<>> /\ updated_at < start[1]
    \/ end # <<>> /\ created_at > end[1]

\* a bug: the counts are copied before the window is looked at
InitItemCopiesFirst(id, m) ==
    LET it == [NewItem(id) EXCEPT !.created_at = ParseTime(m.created_at),
                                  !.updated_at = ParseTime(m.updated_at),
                                  !.likes_count = m.likes_count,
                                  !.comments_count = m.comments_count]
    IN IF OutOfWindow(it.created_at, it.updated_at) THEN it
       ELSE [it EXCEPT !.is_valid = TRUE]

\* Item.__init__ from the metadata to the call of _get_stockers_count
InitItem(id, m) ==
    LET it == [NewItem(id) EXCEPT !.created_at = ParseTime(m.created_at),
                                  !.updated_at = ParseTime(m.updated_at)]
    IN IF OutOfWindow(it.created_at, it.updated_at) THEN it
       ELSE [it EXCEPT !.is_valid = TRUE,
                       !.likes_count = m.likes_count,
                       !.comments_count = m.comments_count]

\* a bug: a full page ends the loop too
LastPageInclusive(n) == n <= PER_PAGE

LastPage(n) == n < PER_PAGE

\* ------------------------------------------------------------------ User
NewUser(id) ==
    [user_id |-> id, followees_count |-> 0, followers_count |-> 0, items_count |-> 0,
     likes_count |-> 0, stockers_count |-> 0, comments_count |-> 0,
     contribution |-> 0, items |-> <<>>]

RECURSIVE Summed(_, _)
\* the for loop of _calc_contribution
Summed(u, its) ==
    IF its = <<>> THEN u
    ELSE Summed([u EXCEPT !.items_count = @ + (IF Head(its).is_valid THEN 1 ELSE 0),
                          !.likes_count = @ + Head(its).likes_count,
                          !.stockers_count = @ + Head(its).stockers_count,
                          !.comments_count = @ + Head(its).comments_count],
                Tail(its))

\* a bug: int(x), the half is dropped
RoundDown(twice) == twice \div 2

\* int(math.floor(x + 0.5)) with x = twice / 2, a float with an exact half
RoundHalf(twice) == (twice + 1) \div 2

CalcContribution(u) ==
    LET s == Summed(u, u.items)
    IN [s EXCEPT !.contribution =
            RoundHalf(2 * s.items_count + 2 * s.likes_count + s.stockers_count)]

GetContribution(u) ==
    [user_id |-> u.user_id, followees |-> u.followees_count,
     followers |-> u.followers_count, items |-> u.items_count,
     likes |-> u.likes_count, stockers |-> u.stockers_count,
     comments |-> u.comments_count, contribution |-> u.contribution]

\* ------------------------------------------------------------------ main
\* a bug: sorted(...)[::-1], equal keys end up in reverse order
InsertDescReversed(s, x) ==
    LET before == {i \in 1..Len(s) : s[i].contribution > x.contribution}
        n == Cardinality(before)
    IN SubSeq(s, 1, n) \o <<x>> \o SubSeq(s, n + 1, Len(s))

\* sorted(..., key=contribution, reverse=True): stable, equal keys keep their order
InsertDesc(s, x) ==
    LET before == {i \in 1..Len(s) : s[i].contribution >= x.contribution}
        n == Cardinality(before)
    IN SubSeq(s, 1, n) \o <<x>> \o SubSeq(s, n + 1, Len(s))

RECURSIVE SortedDesc(_)
SortedDesc(s) ==
    IF s = <<>> THEN <<>>
    ELSE InsertDesc(SortedDesc(SubSeq(s, 1, Len(s) - 1)), s[Len(s)])

Header ==
    <<"rank", "user_id", "followees", "followers", "items", "likes", "stockers",
      "comments", "contribution">>

Row(i, c) ==
    <<i, c.user_id, c.followees, c.followers, c.items, c.likes, c.stockers,
      c.comments, c.contribution>>

Written(cs) == <<Header>> \o [i \in 1..Len(cs) |-> Row(i, SortedDesc(cs)[i])]

\* a bug: the check for no data never fires
NoDataNever(cs) == Len(cs) < 0

NoData(cs) == Len(cs) < 1

\* the for loop of main goes on to the next user id
Advance ==
    /\ uidx' = uidx + 1
    /\ pc' = IF uidx + 1 > Len(user_ids) THEN "report" ELSE "user"

\* a bug: break instead of continue
RaiseAbort(u) ==
    /\ user' = u
    /\ printed' = printed \cup {uidx}
    /\ contributions' = contributions
    /\ uidx' = uidx + 1
    /\ pc' = "report"

\* a bug: the failed user is tried again
RaiseRetry(u) ==
    /\ user' = u
    /\ printed' = printed \cup {uidx}
    /\ contributions' = contributions
    /\ uidx' = uidx
    /\ pc' = "user"

\* an exception leaves User(...): except, print(e), continue
Raise(u) ==
    /\ user' = u
    /\ printed' = printed \cup {uidx}
    /\ contributions' = contributions
    /\ Advance

\* _get_items returns: _calc_contribution, then contributions.append
Return(u) ==
    /\ user' = CalcContribution(u)
    /\ contributions' = Append(contributions, GetContribution(CalcContribution(u)))
    /\ printed' = printed
    /\ Advance

\* Item(...) returned inside the for loop of _get_items
ItemDone(it) ==
    LET u == [user EXCEPT !.items = Append(@, it)]
    IN /\ item' = it
       /\ IF k < Len(items)
          THEN /\ user' = u /\ k' = k + 1 /\ page' = page /\ pc' = "item"
               /\ UNCHANGED <<contributions, printed, uidx>>
          ELSE IF LastPage(Len(items))
          THEN Return(u) /\ k' = k /\ page' = page
          ELSE /\ user' = u /\ k' = k /\ page' = page + 1 /\ pc' = "items_page"
               /\ UNCHANGED <<contributions, printed, uidx>>

Init ==
    /\ args \in [start : {<<>>} \cup {<<d>> : d \in Days},
                 end : {<<>>} \cup {<<d>> : d \in Days}]
    /\ user_ids \in UNION {[1..n -> UserIds] : n \in 1..MaxUsers}
    /\ user_ids[1] = "a"
    /\ start = ParseStart(args.start)
    /\ end = ParseEnd(args.end)
    /\ contributions = <<>>
    /\ uidx = 1
    /\ pc = "user"
    /\ user = NewUser("")
    /\ page = 1
    /\ items = <<>>
    /\ k = 1
    /\ item = NoItem
    /\ spage = 1
    /\ stockers_count = 0
    /\ printed = {}
    /\ file = [opened |-> FALSE, lines |-> <<>>]
    /\ log = <<>>

\* User.__init__ up to the call of _get_items; the locals of the calls it makes
\* start afresh. An error object has no 'followees_count': KeyError.
GetUser ==
    /\ pc = "user"
    /\ \E r \in ProfileResponses :
        LET u == NewUser(user_ids[uidx]) IN
        /\ log' = <<Exchange("user", 0, 0, r)>>
        /\ IF r.kind = "ok"
           THEN /\ user' = [u EXCEPT !.followees_count = r.json.followees_count,
                                     !.followers_count = r.json.followers_count]
                /\ pc' = "items_page"
                /\ UNCHANGED <<contributions, printed, uidx>>
           ELSE Raise(u)
    /\ page' = 1 /\ items' = <<>> /\ k' = 1
    /\ item' = NoItem /\ spage' = 1 /\ stockers_count' = 0
    /\ UNCHANGED <<args, user_ids, start, end, file>>

\* one turn of the while loop of _get_items, up to the first Item(...). The for
\* loop over an error object yields its keys, and item['id'] of a str is a
\* TypeError.
GetItemsPage ==
    /\ pc = "items_page"
    /\ \E r \in ItemsResponses(page) :
        /\ log' = Append(log, Exchange("items", page, 0, r))
        /\ IF r.kind # "ok"
           THEN Raise(user) /\ UNCHANGED <<items, k, page>>
           ELSE /\ items' = r.json
                /\ k' = 1
                /\ IF Len(r.json) > 0
                   THEN /\ pc' = "item"
                        /\ UNCHANGED <<user, contributions, printed, uidx, page>>
                   ELSE IF LastPage(Len(r.json))
                   THEN Return(user) /\ page' = page
                   ELSE /\ pc' = "items_page" /\ page' = page + 1
                        /\ UNCHANGED <<user, contributions, printed, uidx>>
    /\ UNCHANGED <<args, user_ids, start, end, item, spage, stockers_count, file>>

\* Item.__init__ up to the call of _get_stockers_count. An error object has no
\* 'created_at': KeyError.
GetItem ==
    /\ pc = "item"
    /\ \E r \in ItemResponses(items[k]) :
        /\ log' = Append(log, Exchange("item", page, items[k], r))
        /\ IF r.kind # "ok"
           THEN /\ Raise(user)
                /\ item' = NewItem(items[k])
                /\ UNCHANGED <<k, page, spage, stockers_count>>
           ELSE LET it == InitItem(items[k], r.json) IN
                IF it.is_valid
                THEN /\ item' = it
                     /\ spage' = 1
                     /\ stockers_count' = 0
                     /\ pc' = "stockers"
                     /\ UNCHANGED <<user, contributions, printed, uidx, k, page>>
                ELSE ItemDone(it) /\ UNCHANGED <<spage, stockers_count>>
    /\ UNCHANGED <<args, user_ids, start, end, items, file>>

\* one turn of the while loop of _get_stockers_count. Only len() is taken of the
\* body: an error object counts as a page of as many stockers as it has keys.
GetStockersPage ==
    /\ pc = "stockers"
    /\ \E r \in StockersResponses(item.item_id, spage) :
        /\ log' = Append(log, Exchange("stockers", spage, item.item_id, r))
        /\ IF r.kind = "raise"
           THEN /\ Raise(user)
                /\ UNCHANGED <<item, k, page, spage, stockers_count>>
           ELSE /\ stockers_count' = stockers_count + PyLen(r)
                /\ IF LastPage(PyLen(r))
                   THEN /\ ItemDone([item EXCEPT !.stockers_count = stockers_count + PyLen(r)])
                        /\ spage' = spage
                   ELSE /\ spage' = spage + 1
                        /\ UNCHANGED <<user, contributions, printed, uidx, k, page, item, pc>>
    /\ UNCHANGED <<args, user_ids, start, end, items, file>>

\* main after the for loop
Report ==
    /\ pc = "report"
    /\ IF NoData(contributions)
       THEN pc' = "error" /\ file' = file
       ELSE pc' = "done" /\ file' = [opened |-> TRUE, lines |-> Written(contributions)]
    /\ UNCHANGED <<args, user_ids, start, end, contributions, uidx, user, page, items, k,
                   item, spage, stockers_count, printed, log>>

Next == GetUser \/ GetItemsPage \/ GetItem \/ GetStockersPage \/ Report

Spec == Init /\ [][Next]_vars

\* ---------------------------------------------------------------- claims
\* the for loop of main is over
Finished == pc \in {"report", "done", "error"}

\* the most recent User(...) returned: user is a complete User object
Completed == log # <<>> /\ log[1].u = uidx - 1 /\ (uidx - 1) \notin printed

\* the exchanges of one endpoint, in order
Of(kind, id) ==
    LET Test(e) == e.kind = kind /\ e.id = id IN SelectSeq(log, Test)

RECURSIVE SelectIdx(_, _)
\* the elements of s whose position is not in skip, in order
SelectIdx(s, skip) ==
    IF s = <<>> THEN <<>>
    ELSE LET rest == SelectIdx(SubSeq(s, 1, Len(s) - 1), skip)
         IN IF Len(s) \in skip THEN rest ELSE Append(rest, s[Len(s)])

RECURSIVE SumN(_)
SumN(es) == IF es = <<>> THEN 0 ELSE Head(es).n + SumN(Tail(es))

RECURSIVE SumValid(_, _)
SumValid(its, f) ==
    IF its = <<>> THEN 0
    ELSE (IF Head(its).is_valid THEN Head(its)[f] ELSE 0) + SumValid(Tail(its), f)

InWindow(it) ==
    /\ start = <<>> \/ it.updated_at >= start[1]
    /\ end = <<>> \/ it.created_at <= end[1]

\* the Item objects built so far for the current user
Built == user.items \o (IF pc = "stockers" THEN <<item>> ELSE <<>>)

\* C1: every record main holds has contribution = floor(items + likes +
\* 0.5 * stockers + 0.5): twice the sum plus one lies in [2c, 2c + 2).
ContributionRoundsHalfUp ==
    \A i \in 1..Len(contributions) :
        LET c == contributions[i]
            twice == 2 * c.items + 2 * c.likes + c.stockers
        IN /\ 2 * c.contribution <= twice + 1
           /\ twice + 1 < 2 * c.contribution + 2
           /\ c.contribution = c.items + c.likes + (c.stockers + 1) \div 2

OddStockersRecord ==
    \E i \in 1..Len(contributions) :
        /\ contributions[i].stockers % 2 = 1
        /\ contributions[i].contribution =
             contributions[i].items + contributions[i].likes
             + (contributions[i].stockers + 1) \div 2

\* C2: an Item is valid exactly when (no start or updated_at >= start) and
\* (no end or created_at <= end), both bounds inclusive.
ValidIffInWindow ==
    \A i \in 1..Len(Built) : Built[i].is_valid <=> InWindow(Built[i])

ValidAtStartBound ==
    /\ start # <<>>
    /\ \E i \in 1..Len(user.items) :
        /\ user.items[i].updated_at = start[1]
        /\ user.items[i].created_at < start[1]
        /\ user.items[i].is_valid

\* C3: an exception in User(...) skips that user only: every user id is
\* processed, the records are those of the positions that did not fail, in
\* input order, and the report has one row for each of them.
FailureSkipsOnlyThatUser ==
    /\ printed \subseteq 1..(uidx - 1)
    /\ Len(contributions) + Cardinality(printed) = uidx - 1
    /\ [i \in 1..Len(contributions) |-> contributions[i].user_id]
         = SelectIdx(SubSeq(user_ids, 1, uidx - 1), printed)
    /\ Finished => uidx = Len(user_ids) + 1
    /\ pc = "done" =>
        /\ Len(file.lines) = 1 + Len(user_ids) - Cardinality(printed)
        /\ \A id \in UserIds :
            Cardinality({j \in 2..Len(file.lines) : file.lines[j][2] = id})
              = Cardinality({i \in 1..Len(user_ids) :
                               user_ids[i] = id /\ i \notin printed})

FirstFailedSecondReported ==
    /\ pc = "done"
    /\ printed = {1}
    /\ Len(user_ids) = 2
    /\ Len(file.lines) = 2
    /\ file.lines[2][2] = user_ids[2]

\* C4: when every user failed the run ends in the error and the file is not
\* touched; the file is only ever written when the for loop is over.
NoReportWithoutData ==
    /\ file.opened => pc = "done" /\ uidx = Len(user_ids) + 1 /\ contributions # <<>>
    /\ ~file.opened => file.lines = <<>>
    /\ pc \in {"done", "error"} => (pc = "error" <=> printed = 1..Len(user_ids))
    /\ pc = "error" => ~file.opened

AllUsersFailed == pc = "error" /\ Len(user_ids) = 2 /\ printed = {1, 2}

Perms(n) == {f \in [1..n -> 1..n] : \A i, j \in 1..n : f[i] = f[j] => i = j}

\* C5: the rows are the records in a stable descending order of contribution
\* (equal contributions keep their fetch order), with ranks 1..k.
RowsStableDescending ==
    pc = "done" =>
        LET n == Len(contributions)
            rows == Tail(file.lines)
        IN /\ Len(rows) = n
           /\ \A i \in 1..n : rows[i][1] = i
           /\ \E f \in Perms(n) :
                /\ \A i \in 1..n : Tail(rows[i]) = Tail(Row(i, contributions[f[i]]))
                /\ \A i, j \in 1..n :
                     i < j =>
                       \/ contributions[f[i]].contribution > contributions[f[j]].contribution
                       \/ /\ contributions[f[i]].contribution = contributions[f[j]].contribution
                          /\ f[i] < f[j]

TiedRecordsReported ==
    /\ pc = "done"
    /\ Len(contributions) = 2
    /\ contributions[1].contribution = contributions[2].contribution
    /\ contributions[1].stockers # contributions[2].stockers

PagesInOrder(es) ==
    \A i \in 1..Len(es) :
        /\ es[i].page = i
        /\ i < Len(es) => es[i].got # "raise" /\ es[i].n >= PER_PAGE

\* the loop goes on after this page
Full(e) == e.got # "raise" /\ e.n >= PER_PAGE

\* the loop ended with this page
Short(e) == e.got # "raise" /\ e.n < PER_PAGE

SameLoop(e, f) == e.kind = f.kind /\ e.id = f.id

RECURSIVE Run(_)
\* the lengths of the stockers pages up to exchange j of the loop it is part of
Run(j) == IF log[j].page = 1 THEN log[j].n ELSE log[j].n + Run(j - 1)

\* C6: both loops ask for pages 1, 2, 3, ... and go on exactly as long as a
\* page holds PER_PAGE entries or more; what a loop that ended counted is the
\* sum of the page lengths.
PaginationStopsAtShortPage ==
    LET pages == Of("items", 0)
        last == log[Len(log)]
    IN
    /\ PagesInOrder(pages)
    /\ pc = "items_page" =>
        /\ page = Len(pages) + 1
        /\ pages # <<>> => Full(pages[Len(pages)])
    /\ Completed =>
        /\ Short(pages[Len(pages)])
        /\ Len(user.items) = SumN(pages)
    /\ \A j \in 2..Len(log) :
        log[j].kind = "stockers" =>
            /\ IF log[j].page = 1
               THEN log[j - 1].kind = "item" /\ log[j - 1].id = log[j].id
               ELSE /\ SameLoop(log[j - 1], log[j])
                    /\ log[j - 1].page = log[j].page - 1
                    /\ Full(log[j - 1])
            /\ j < Len(log) =>
                 IF SameLoop(log[j + 1], log[j]) THEN Full(log[j]) ELSE Short(log[j])
    /\ pc = "stockers" =>
        IF last.kind = "stockers"
        THEN /\ last.id = item.item_id /\ Full(last)
             /\ spage = last.page + 1
             /\ stockers_count = Run(Len(log))
        ELSE spage = 1 /\ stockers_count = 0
    /\ log # <<>> /\ last.kind = "stockers" /\ Short(last) =>
        /\ pc # "stockers"
        /\ item.item_id = last.id
        /\ item.stockers_count = Run(Len(log))
        /\ user.items[Len(user.items)] = item

TwoPagesEach ==
    /\ Completed
    /\ Len(Of("items", 0)) = 2
    /\ Len(user.items) = PER_PAGE + 1
    /\ user.items[PER_PAGE].item_id = 1
    /\ user.items[PER_PAGE].stockers_count = PER_PAGE + 1
    /\ Len(Of("stockers", 1)) = 2

\* C7: an HTTP-level failure of any endpoint (an exception, or the JSON error
\* object of a non-2xx answer) ends the user's aggregation as failed.
HttpFailurePropagates ==
    \A j \in 1..Len(log) :
        log[j].got # "ok" => j = Len(log) /\ log[j].u \in printed

\* C8: an invalid Item has its metadata fetched and no stockers page, and keeps
\* zero counts; the sums of a complete User are those over its valid items.
InvalidItemsCountNothing ==
    LET last == log[Len(log)] IN
    /\ \A i \in 1..Len(user.items) :
        ~user.items[i].is_valid =>
            /\ user.items[i].likes_count = 0
            /\ user.items[i].stockers_count = 0
            /\ user.items[i].comments_count = 0
    /\ log # <<>> /\ last.kind = "stockers" =>
        item.item_id = last.id /\ item.is_valid /\ InWindow(item)
    /\ log # <<>> /\ last.kind = "item" /\ last.got = "ok" =>
        /\ item.item_id = last.id
        /\ item.is_valid <=> pc = "stockers"
        /\ ~item.is_valid => ~InWindow(item) /\ user.items[Len(user.items)] = item
    /\ Completed =>
        /\ user.items_count = Cardinality({i \in 1..Len(user.items) : user.items[i].is_valid})
        /\ user.likes_count = SumValid(user.items, "likes_count")
        /\ user.stockers_count = SumValid(user.items, "stockers_count")
        /\ user.comments_count = SumValid(user.items, "comments_count")
        /\ contributions[Len(contributions)] = GetContribution(user)

InvalidAmongValid ==
    /\ Completed
    /\ Len(user.items) = PER_PAGE + 1
    /\ ~user.items[PER_PAGE].is_valid
    /\ user.items_count = PER_PAGE
    /\ user.likes_count = PER_PAGE

DayOf(t) == t \div SecondsPerDay

\* C9: with --end D an item passes the end bound exactly when it was created on
\* day D or before, and with --start S the start bound exactly when it was
\* updated on day S or after.
EndBoundIsEndOfDay ==
    \A i \in 1..Len(Built) :
        Built[i].is_valid <=>
            /\ args.start = <<>> \/ DayOf(Built[i].updated_at) >= args.start[1]
            /\ args.end = <<>> \/ DayOf(Built[i].created_at) <= args.end[1]

CreatedInLastSecondOfEndDay ==
    /\ args.end # <<>>
    /\ \E i \in 1..Len(user.items) :
        /\ user.items[i].created_at = args.end[1] * SecondsPerDay + SecondsPerDay - 1
        /\ user.items[i].is_valid

\* the ids of the metadata requests between items page a and the next items page
ItemIdsOfPage(a) ==
    LET later == {b \in (a + 1)..Len(log) : log[b].kind = "items"}
        stop == IF later = {} THEN Len(log) + 1 ELSE CHOOSE b \in later : \A c \in later : b <= c
        Test(e) == e.kind = "item"
        got == SelectSeq(SubSeq(log, a + 1, stop - 1), Test)
    IN [i \in 1..Len(got) |-> got[i].id]

\* what came before each request of the current user
LogInOrder ==
    /\ \A j \in 1..Len(log) :
        /\ log[j].u = log[1].u
        /\ log[j].kind = "user" <=> j = 1
        /\ j > 1 =>
            LET e == log[j]
                prev == log[j - 1]
            IN /\ prev.got # "raise"
               /\ e.kind = "items" =>
                    \/ e.page = 1 /\ prev.kind = "user" /\ prev.got = "ok"
                    \/ e.page > 1 /\ prev.kind \in {"item", "stockers"}
               /\ e.kind = "item" =>
                    \/ prev.kind = "items" /\ prev.got = "ok"
                    \/ prev.kind = "item" /\ prev.got = "ok"
                    \/ prev.kind = "stockers" /\ prev.n < PER_PAGE
               /\ e.kind = "stockers" =>
                    \/ e.page = 1 /\ prev.kind = "item" /\ prev.id = e.id /\ prev.got = "ok"
                    \/ e.page > 1 /\ prev.kind = "stockers" /\ prev.id = e.id
                       /\ prev.page = e.page - 1 /\ prev.n >= PER_PAGE
        /\ log[j].kind = "items" /\ log[j].got = "ok" =>
            LET ids == ItemIdsOfPage(j)
                all == PageIds(log[j].page, log[j].n)
            IN /\ Len(ids) <= Len(all)
               /\ ids = SubSeq(all, 1, Len(ids))
               /\ (\E b \in (j + 1)..Len(log) : log[b].kind = "items") => ids = all
    /\ log # <<>> => log[1].u \in {uidx - 1, uidx}
    /\ pc \in {"items_page", "item", "stockers"} => log # <<>> /\ log[1].u = uidx

\* a request is for the current position of the for loop, which has not failed
StepInOrder ==
    /\ uidx' \in {uidx, uidx + 1}
    /\ log' # log =>
        /\ log'[Len(log')].u = uidx
        /\ uidx \notin printed
        /\ log' = Append(log, log'[Len(log')]) \/ Len(log') = 1
        /\ Len(log') = 1 /\ log # <<>> => log[1].u = uidx - 1

\* C10: the requests of a user come one after the other in the order profile,
\* items page 1, then per item of the page its metadata and its stockers pages
\* 1, 2, ..., then the next page; a user's requests start when the users before
\* are over, and none follows the user's failure.
RequestsSequential == [](LogInOrder) /\ [][StepInOrder]_vars

SecondUserAfterFirst ==
    /\ pc = "stockers"
    /\ log[1].u = 2
    /\ Len(log) = 3
    /\ Len(contributions) = 1
    /\ contributions[1].items = PER_PAGE + 1
    /\ contributions[1].stockers = PER_PAGE + 1

====
